---------------------------- MODULE Spec2Model ----------------------------
(***************************************************************************)
(* Model of the callback-context registry of the clamav Go wrapper         *)
(* (src/clamav.go): the process-wide table callbacks.cb guarded by the     *)
(* embedded sync.Mutex, the three registry functions setContext,           *)
(* findContext and deleteContext, and the scan entry points that use them. *)
(*                                                                         *)
(* Two specifications share the state and the registry steps:              *)
(*   Spec      goroutines call the three registry functions directly, with *)
(*             any context value and any key (live, released or unknown);  *)
(*   ScanSpec  goroutines call ScanFile, ScanDesc, ScanFileCb, ScanMapCb;  *)
(*             the engine calls back into findContext, on the calling      *)
(*             thread or on another one, while the scan call is running.   *)
(*   TripleSpec    goroutines run setContext/findContext/deleteContext     *)
(*             triples on distinct contexts under a fair scheduler;        *)
(*   ScanFairSpec  ScanSpec with a fair mutex.                             *)
(* Two more specifications cover the rest of the file:                     *)
(*   StatSpec  StatIniDir, StatFree and StatChkReload on the caller's Stat *)
(*             structures;                                                 *)
(*   InitSpec  concurrent calls of Init through initOnce.                  *)
(***************************************************************************)
EXTENDS Naturals, FiniteSets

(* ------------------------------ bounds -------------------------------- *)
\* number of goroutines / threads
NumProcs == 2
\* number of distinct addresses the C allocator can hand out
NumAddr == 2
\* number of distinct context values
NumCtx == 2
\* largest byte count the engine reports
MaxScanned == 1
\* number of Stat structures the caller owns
NumStats == 2
\* number of times the database directory changes
MaxDbVer == 2
\* number of cl_init calls counted before the counter stops
MaxInit == 2

Procs == 1..NumProcs
Addr == 1..NumAddr
Ctx == 1..NumCtx
\* the nil pointer
NULL == 0
NoProc == 0
NoCtx == 0

(* --------------------------- engine statuses -------------------------- *)
Success == "Success"
Virus == "Virus"
\* any engine status other than Success and Virus
OtherStatus == "Error"
Status == {Success, Virus, OtherStatus}
VirNames == {"", "Eicar"}

CbScans == {"ScanFileCb", "ScanMapCb"}
\* a register/resolve/unregister triple: setContext(v), findContext of the
\* key it returned, deleteContext of that key
Triple == "triple"
\* the callers that go on with the key after a registry function returns
Callers == CbScans \cup {Triple}

VARIABLES
  heap,        \* addresses C.malloc has handed out and C.free has not taken back
  cb,          \* callbacks.cb : key -> context
  mutex,       \* holder of callbacks.Mutex, NoProc when unlocked
  pc,          \* per goroutine: position in the function it runs
  ctx,         \* per goroutine: the interface value i / context argument
  key,         \* per goroutine: cptr of setContext, key of find/deleteContext, cctx
  res,         \* per goroutine: outcome of the registry function it runs
  frame,       \* per goroutine: the enclosing function, "none" for a direct call
  cbOf,        \* per goroutine: the scan whose callback it is running, NoProc if none
  cstr,        \* per goroutine: a C.CString buffer is allocated and not yet freed
  eng,         \* per goroutine: what the engine call reported
  ret,         \* per goroutine: the scan function's return values
  registered,  \* history: key -> context of the registrations completed and not yet undone
  released,    \* history: keys some completed deleteContext has released
  ndel,        \* history: deleteContext calls completed in the current scan call
  dbver,       \* the version of the database directory on disk
  stats,       \* the caller's Stat structures
  spc,         \* position of the caller of the Stat functions
  sarg,        \* the stat argument of the StatChkReload call in progress
  slocal,      \* StatChkReload's own variable stat after stat = new(Stat)
  sret,        \* StatChkReload's return values
  swas,        \* history: the argument held a snapshot when StatChkReload was called
  onceDone,    \* initOnce.done: some Do call has run its function to the end
  onceM,       \* holder of initOnce.m, NoProc when unlocked
  ipc,         \* per goroutine: position in Init
  onceerr,     \* per goroutine: Init's local variable onceerr
  ninit,       \* history: number of cl_init calls made
  initst,      \* history: what the last cl_init returned
  ncrypto,     \* history: number of InitCrypto calls made by Init
  ran,         \* history, per goroutine: this Init call has called cl_init
  todo         \* the contexts of the triples not yet started

\* the registry and the scans
regvars == <<heap, cb, mutex, pc, ctx, key, res, frame, cbOf, cstr, eng, ret,
             registered, released, ndel>>
\* the database-directory watch
statvars == <<dbver, stats, spc, sarg, slocal, sret, swas>>
\* Init and initOnce
initvars == <<onceDone, onceM, ipc, onceerr, ninit, initst, ncrypto, ran>>
\* everything the registry and scan steps leave alone
auxvars == <<statvars, initvars, todo>>

vars == <<regvars, auxvars>>

(* ------------------------- the C allocator ---------------------------- *)
\* a mutation of Malloc: the allocator hands out an address that is still in use
MallocInUse(h) == {NULL} \cup Addr

\* C.malloc(1): nil, or any address not currently allocated
Malloc(h) == {NULL} \cup (Addr \ h)

\* a mutation of Free: the token is never given back
FreeNone(h, p) == h

\* C.free(p)
Free(h, p) == h \ {p}

(* ------------------------- the mutex ---------------------------------- *)
\* a mutation of CanLock: Lock returns without waiting for the holder
CanLockAlways(m) == TRUE

\* callbacks.Lock() returns only when no goroutine holds the mutex
CanLock(m) == m = NoProc

\* a mutation of Unlock: the deferred Unlock is missing
UnlockNot(m) == m

\* callbacks.Unlock(): the mutex after it
Unlock(m) == NoProc

(* ------------------------- the Go map --------------------------------- *)
EmptyMap == [x \in {} |-> NoCtx]

\* a mutation of MapStore: the entry is stored with the wrong value
MapStoreWrong(m, k, v) ==
  [x \in DOMAIN m \cup {k} |-> IF x = k THEN (v % NumCtx) + 1 ELSE m[x]]

\* a mutation of MapStore: the table is replaced by one holding the new entry only
MapStoreAlone(m, k, v) == [x \in {k} |-> v]

\* callbacks.cb[cptr] = i
MapStore(m, k, v) == [x \in DOMAIN m \cup {k} |-> IF x = k THEN v ELSE m[x]]

\* a mutation of MapHas: the ok test is inverted
MapHasNot(m, k) == k \notin DOMAIN m

\* v, ok := callbacks.cb[key]
MapHas(m, k) == k \in DOMAIN m

\* a mutation of MapDelete: the whole table is cleared
MapDeleteAll(m, k) == EmptyMap

\* a mutation of MapDelete: nothing is removed
MapDeleteNone(m, k) == m

\* delete(callbacks.cb, key)
MapDelete(m, k) == [x \in DOMAIN m \ {k} |-> m[x]]

(* ------------------------- history ------------------------------------ *)
\* the history of completed calls: a registration of k with v completed
Registered(h, k, v) == [x \in DOMAIN h \cup {k} |-> IF x = k THEN v ELSE h[x]]

\* the history of completed calls: an unregistration of k completed
Unregistered(h, k) == [x \in DOMAIN h \ {k} |-> h[x]]

(* ------------------------- outcomes ----------------------------------- *)
NoRes == [st |-> "none", v |-> NoCtx]
Panic == [st |-> "panic", v |-> NoCtx]
Ok(v) == [st |-> "ok", v |-> v]

NoEng == [status |-> "none", name |-> "", scanned |-> 0]
NoRet == [name |-> "", scanned |-> 0, err |-> "none"]
\* the nil error
Nil == "<nil>"

\* StrError(errno): the engine's message for a status, one message per status
StrError(errno) ==
  CASE errno = Success -> "No viruses detected"
    [] errno = Virus -> "Virus(es) detected"
    [] OTHER -> "Engine error"

\* a mutation of ScanReturn: an infected target is reported without its name
ScanReturnNoName(status, name, scanned) ==
  IF status = Success
  THEN [name |-> "", scanned |-> 0, err |-> Nil]
  ELSE [name |-> "", scanned |-> 0, err |-> StrError(status)]

\* the classification every scan function ends with:
\*   if err == Success { return "", 0, nil }
\*   if err == Virus { return C.GoString(name), uint(scanned), fmt.Errorf(StrError(err)) }
\*   return "", 0, fmt.Errorf(StrError(err))
ScanReturn(status, name, scanned) ==
  IF status = Success
  THEN [name |-> "", scanned |-> 0, err |-> Nil]
  ELSE IF status = Virus
  THEN [name |-> name, scanned |-> scanned, err |-> StrError(status)]
  ELSE [name |-> "", scanned |-> 0, err |-> StrError(status)]

(* ------------------------- Stat structures ---------------------------- *)
Stats == 1..NumStats
NoStatArg == 0
\* var stat Stat: a structure no cl_statinidir has filled in
ZeroStat == [st |-> "zero", ver |-> 0]
\* a structure cl_statfree has released
FreedStat == [st |-> "freed", ver |-> 0]
\* no structure: StatChkReload has not allocated its own yet
NoStat == [st |-> "none", ver |-> 0]
NoStatRet == [changed |-> FALSE, err |-> "none"]

\* cl_statinidir(p, stat) with the directory at version v: the structure holds
\* a snapshot of the directory, or the call fails and leaves no snapshot
StatIniDirResults(v) ==
  {[stat |-> [st |-> "init", ver |-> v], err |-> Nil],
   [stat |-> FreedStat, err |-> "StatIniDir: error"]}

\* cl_statchkdir(stat) == 1 with the directory at version v: whether the
\* directory differs from the snapshot; on a structure that holds no snapshot
\* (never initialised, or freed) the answer is whatever the memory yields
StatChkDirResults(x, v) == IF x.st = "init" THEN {x.ver # v} ELSE BOOLEAN

\* cl_statfree(stat)
StatFreeResult(x) == FreedStat

(* ------------------------- Init and sync.Once ------------------------- *)
\* cl_init has not been called
NoInit == "none"
\* fmt.Errorf("Init: %v", StrError(err))
InitError(err) == <<"Init: ", StrError(err)>>

\* a mutation of OnceNotDone: the done flag is ignored
OnceNotDoneAlways(done) == TRUE

\* o.done.Load() == 0
OnceNotDone(done) == ~done

\* a mutation of FindOutcome: the ok flag is ignored and a missing key yields
\* the map's zero value instead of a panic
FindOutcomeNoPanic(m, k) == IF MapHas(m, k) THEN Ok(m[k]) ELSE Ok(NoCtx)

\* findContext's body: the lookup and what it returns
FindOutcome(m, k) == IF MapHas(m, k) THEN Ok(m[k]) ELSE Panic

Init ==
  /\ heap = {}
  /\ cb = EmptyMap
  /\ mutex = NoProc
  /\ pc = [t \in Procs |-> "idle"]
  /\ ctx = [t \in Procs |-> NoCtx]
  /\ key = [t \in Procs |-> NULL]
  /\ res = [t \in Procs |-> NoRes]
  /\ frame = [t \in Procs |-> "none"]
  /\ cbOf = [t \in Procs |-> NoProc]
  /\ cstr = [t \in Procs |-> FALSE]
  /\ eng = [t \in Procs |-> NoEng]
  /\ ret = [t \in Procs |-> NoRet]
  /\ registered = EmptyMap
  /\ released = {}
  /\ ndel = [t \in Procs |-> 0]
  /\ dbver = 0
  /\ stats = [s \in Stats |-> ZeroStat]
  /\ spc = "idle"
  /\ sarg = NoStatArg
  /\ slocal = NoStat
  /\ sret = NoStatRet
  /\ swas = FALSE
  /\ onceDone = FALSE
  /\ onceM = NoProc
  /\ ipc = [t \in Procs |-> "idle"]
  /\ onceerr = [t \in Procs |-> Nil]
  /\ ninit = 0
  /\ initst = NoInit
  /\ ncrypto = 0
  /\ ran = [t \in Procs |-> FALSE]
  /\ todo = Ctx

(* ------------------------- setContext --------------------------------- *)
\* a goroutine calls setContext(i)
setContext_call(t, i) ==
  /\ pc[t] = "idle"
  /\ pc' = [pc EXCEPT ![t] = "set_malloc"]
  /\ ctx' = [ctx EXCEPT ![t] = i]
  /\ UNCHANGED <<heap, cb, mutex, key, res, frame, cbOf, cstr, eng, ret,
                 registered, released, ndel>>
  /\ UNCHANGED auxvars

\* cptr := C.malloc(1); if cptr == nil { panic("C malloc") }
\* The panic unwinds the caller: ScanFileCb's deferred C.free(cpath) runs.
setContext_malloc(t) ==
  /\ pc[t] = "set_malloc"
  /\ \E p \in Malloc(heap) :
       IF p = NULL
       THEN /\ pc' = [pc EXCEPT ![t] = "panicked"]
            /\ res' = [res EXCEPT ![t] = Panic]
            /\ cstr' = [cstr EXCEPT ![t] = FALSE]
            /\ UNCHANGED <<heap, key>>
       ELSE /\ heap' = heap \cup {p}
            /\ key' = [key EXCEPT ![t] = p]
            /\ pc' = [pc EXCEPT ![t] = "set_lock"]
            /\ UNCHANGED <<res, cstr>>
  /\ UNCHANGED <<cb, mutex, ctx, frame, cbOf, eng, ret, registered, released, ndel>>
  /\ UNCHANGED auxvars

\* callbacks.Lock()
setContext_Lock(t) ==
  /\ pc[t] = "set_lock"
  /\ CanLock(mutex)
  /\ mutex' = t
  /\ pc' = [pc EXCEPT ![t] = "set_store"]
  /\ UNCHANGED <<heap, cb, ctx, key, res, frame, cbOf, cstr, eng, ret,
                 registered, released, ndel>>
  /\ UNCHANGED auxvars

\* callbacks.cb[cptr] = i
setContext_store(t) ==
  /\ pc[t] = "set_store"
  /\ cb' = MapStore(cb, key[t], ctx[t])
  /\ pc' = [pc EXCEPT ![t] = "set_unlock"]
  /\ UNCHANGED <<heap, mutex, ctx, key, res, frame, cbOf, cstr, eng, ret,
                 registered, released, ndel>>
  /\ UNCHANGED auxvars

\* return cptr, running the deferred callbacks.Unlock().  A direct caller
\* gets the key and goes on; ScanFileCb and ScanMapCb go on to the engine
\* call (ScanMapCb allocates cfilename first); a triple goes on to resolve
\* the key.
setContext_return(t) ==
  /\ pc[t] = "set_unlock"
  /\ mutex' = Unlock(mutex)
  /\ registered' = Registered(registered, key[t], ctx[t])
  /\ pc' = [pc EXCEPT ![t] = IF frame[t] \in CbScans THEN "engine"
                             ELSE IF frame[t] = Triple THEN "find_lock"
                             ELSE "idle"]
  /\ res' = [res EXCEPT ![t] = NoRes]
  /\ ctx' = [ctx EXCEPT ![t] = IF frame[t] \in Callers THEN ctx[t] ELSE NoCtx]
  /\ key' = [key EXCEPT ![t] = IF frame[t] \in Callers THEN key[t] ELSE NULL]
  /\ cstr' = [cstr EXCEPT ![t] = IF frame[t] = "ScanMapCb" THEN TRUE ELSE cstr[t]]
  /\ UNCHANGED <<heap, cb, frame, cbOf, eng, ret, released, ndel>>
  /\ UNCHANGED auxvars

(* ------------------------- findContext -------------------------------- *)
\* a goroutine calls findContext(k)
findContext_call(t, k) ==
  /\ pc[t] = "idle"
  /\ pc' = [pc EXCEPT ![t] = "find_lock"]
  /\ key' = [key EXCEPT ![t] = k]
  /\ UNCHANGED <<heap, cb, mutex, ctx, res, frame, cbOf, cstr, eng, ret,
                 registered, released, ndel>>
  /\ UNCHANGED auxvars

\* callbacks.Lock()
findContext_Lock(t) ==
  /\ pc[t] = "find_lock"
  /\ CanLock(mutex)
  /\ mutex' = t
  /\ pc' = [pc EXCEPT ![t] = "find_lookup"]
  /\ UNCHANGED <<heap, cb, ctx, key, res, frame, cbOf, cstr, eng, ret,
                 registered, released, ndel>>
  /\ UNCHANGED auxvars

\* if v, ok := callbacks.cb[key]; ok { return v }; panic("no context for callback")
findContext_lookup(t) ==
  /\ pc[t] = "find_lookup"
  /\ res' = [res EXCEPT ![t] = FindOutcome(cb, key[t])]
  /\ pc' = [pc EXCEPT ![t] = "find_unlock"]
  /\ UNCHANGED <<heap, cb, mutex, ctx, key, frame, cbOf, cstr, eng, ret,
                 registered, released, ndel>>
  /\ UNCHANGED auxvars

\* the deferred callbacks.Unlock(), then the return or the panic leaves the
\* function.  A callback on the scanning thread returns into the engine.
findContext_return(t) ==
  /\ pc[t] = "find_unlock"
  /\ mutex' = Unlock(mutex)
  /\ pc' = [pc EXCEPT ![t] = IF res[t] = Panic THEN "panicked"
                             ELSE IF frame[t] \in CbScans THEN "engine"
                             ELSE IF frame[t] = Triple THEN "del_lock"
                             ELSE "idle"]
  /\ res' = [res EXCEPT ![t] = IF res[t] = Panic THEN Panic ELSE NoRes]
  /\ key' = [key EXCEPT ![t] = IF frame[t] \in Callers \/ res[t] = Panic
                                THEN key[t] ELSE NULL]
  /\ frame' = [frame EXCEPT ![t] = IF frame[t] \in Callers THEN frame[t] ELSE "none"]
  /\ cbOf' = [cbOf EXCEPT ![t] = NoProc]
  /\ UNCHANGED <<heap, cb, ctx, cstr, eng, ret, registered, released, ndel>>
  /\ UNCHANGED auxvars

(* ------------------------- deleteContext ------------------------------ *)
\* a goroutine calls deleteContext(k)
deleteContext_call(t, k) ==
  /\ pc[t] = "idle"
  /\ pc' = [pc EXCEPT ![t] = "del_lock"]
  /\ key' = [key EXCEPT ![t] = k]
  /\ UNCHANGED <<heap, cb, mutex, ctx, res, frame, cbOf, cstr, eng, ret,
                 registered, released, ndel>>
  /\ UNCHANGED auxvars

\* callbacks.Lock()
deleteContext_Lock(t) ==
  /\ pc[t] = "del_lock"
  /\ CanLock(mutex)
  /\ mutex' = t
  /\ pc' = [pc EXCEPT ![t] = "del_delete"]
  /\ UNCHANGED <<heap, cb, ctx, key, res, frame, cbOf, cstr, eng, ret,
                 registered, released, ndel>>
  /\ UNCHANGED auxvars

\* if _, ok := callbacks.cb[key]; ok { delete(callbacks.cb, key) ... }
\* panic("no context to delete")
deleteContext_delete(t) ==
  /\ pc[t] = "del_delete"
  /\ IF MapHas(cb, key[t])
     THEN /\ cb' = MapDelete(cb, key[t])
          /\ pc' = [pc EXCEPT ![t] = "del_free"]
          /\ UNCHANGED res
     ELSE /\ res' = [res EXCEPT ![t] = Panic]
          /\ pc' = [pc EXCEPT ![t] = "del_unlock"]
          /\ UNCHANGED cb
  /\ UNCHANGED <<heap, mutex, ctx, key, frame, cbOf, cstr, eng, ret,
                 registered, released, ndel>>
  /\ UNCHANGED auxvars

\* C.free(key); return
deleteContext_free(t) ==
  /\ pc[t] = "del_free"
  /\ heap' = Free(heap, key[t])
  /\ res' = [res EXCEPT ![t] = Ok(NoCtx)]
  /\ pc' = [pc EXCEPT ![t] = "del_unlock"]
  /\ UNCHANGED <<cb, mutex, ctx, key, frame, cbOf, cstr, eng, ret,
                 registered, released, ndel>>
  /\ UNCHANGED auxvars

\* the deferred callbacks.Unlock(), then the return or the panic leaves the
\* function.  In ScanFileCb the deferred C.free(cpath) runs next and the
\* scan function returns.
deleteContext_return(t) ==
  /\ pc[t] = "del_unlock"
  /\ mutex' = Unlock(mutex)
  /\ pc' = [pc EXCEPT ![t] = IF res[t] = Panic THEN "panicked"
                             ELSE IF frame[t] \in CbScans THEN "scan_done"
                             ELSE IF frame[t] = Triple THEN "triple_done"
                             ELSE "idle"]
  /\ registered' = IF res[t] = Panic THEN registered ELSE Unregistered(registered, key[t])
  /\ released' = IF res[t] = Panic THEN released ELSE released \cup {key[t]}
  /\ ndel' = [ndel EXCEPT ![t] = IF res[t] # Panic /\ frame[t] \in CbScans
                                 THEN ndel[t] + 1 ELSE ndel[t]]
  /\ res' = [res EXCEPT ![t] = IF res[t] = Panic THEN Panic ELSE NoRes]
  /\ key' = [key EXCEPT ![t] = IF frame[t] \in Callers \/ res[t] = Panic
                                THEN key[t] ELSE NULL]
  /\ cstr' = [cstr EXCEPT ![t] = FALSE]
  /\ UNCHANGED <<heap, cb, ctx, frame, cbOf, eng, ret>>
  /\ UNCHANGED auxvars

(* ------------------------- the registry's clients ---------------------- *)
Next ==
  \/ \E t \in Procs, i \in Ctx : setContext_call(t, i)
  \/ \E t \in Procs : setContext_malloc(t)
  \/ \E t \in Procs : setContext_Lock(t)
  \/ \E t \in Procs : setContext_store(t)
  \/ \E t \in Procs : setContext_return(t)
  \/ \E t \in Procs, k \in Addr : findContext_call(t, k)
  \/ \E t \in Procs : findContext_Lock(t)
  \/ \E t \in Procs : findContext_lookup(t)
  \/ \E t \in Procs : findContext_return(t)
  \/ \E t \in Procs, k \in Addr : deleteContext_call(t, k)
  \/ \E t \in Procs : deleteContext_Lock(t)
  \/ \E t \in Procs : deleteContext_delete(t)
  \/ \E t \in Procs : deleteContext_free(t)
  \/ \E t \in Procs : deleteContext_return(t)

Spec == Init /\ [][Next]_vars

(* ------------------------- the scan functions -------------------------- *)
\* ScanFile(path, opts): cpath := C.CString(path), then the engine call
ScanFile_call(t) ==
  /\ pc[t] = "idle"
  /\ pc' = [pc EXCEPT ![t] = "engine"]
  /\ frame' = [frame EXCEPT ![t] = "ScanFile"]
  /\ cstr' = [cstr EXCEPT ![t] = TRUE]
  /\ UNCHANGED <<heap, cb, mutex, ctx, key, res, cbOf, eng, ret,
                 registered, released, ndel>>
  /\ UNCHANGED auxvars

\* ScanDesc(filename, desc, opts): cFilename := C.CString(filename), then the engine call
ScanDesc_call(t) ==
  /\ pc[t] = "idle"
  /\ pc' = [pc EXCEPT ![t] = "engine"]
  /\ frame' = [frame EXCEPT ![t] = "ScanDesc"]
  /\ cstr' = [cstr EXCEPT ![t] = TRUE]
  /\ UNCHANGED <<heap, cb, mutex, ctx, key, res, cbOf, eng, ret,
                 registered, released, ndel>>
  /\ UNCHANGED auxvars

\* ScanFileCb(path, opts, context): cpath := C.CString(path); cctx := setContext(context)
ScanFileCb_call(t, c) ==
  /\ pc[t] = "idle"
  /\ pc' = [pc EXCEPT ![t] = "set_malloc"]
  /\ frame' = [frame EXCEPT ![t] = "ScanFileCb"]
  /\ ctx' = [ctx EXCEPT ![t] = c]
  /\ cstr' = [cstr EXCEPT ![t] = TRUE]
  /\ UNCHANGED <<heap, cb, mutex, key, res, cbOf, eng, ret, registered, released, ndel>>
  /\ UNCHANGED auxvars

\* ScanMapCb(fmap, filename, opts, context): cctx := setContext(context)
ScanMapCb_call(t, c) ==
  /\ pc[t] = "idle"
  /\ pc' = [pc EXCEPT ![t] = "set_malloc"]
  /\ frame' = [frame EXCEPT ![t] = "ScanMapCb"]
  /\ ctx' = [ctx EXCEPT ![t] = c]
  /\ UNCHANGED <<heap, cb, mutex, key, res, cbOf, cstr, eng, ret,
                 registered, released, ndel>>
  /\ UNCHANGED auxvars

\* The scan call s is inside the engine: in the C call itself, or in a callback
\* the engine runs on the scanning thread.
InEngine(s) == frame[s] \in CbScans /\ (pc[s] = "engine" \/ cbOf[s] = s)

\* The engine, inside the scan call of s, invokes a callback with the cctx it
\* was given; the callback runs on thread f (the scanning thread itself or an
\* idle thread the engine uses) and calls findContext(cctx).
engine_callback(f, s) ==
  /\ pc[s] = "engine"
  /\ frame[s] \in CbScans
  /\ f \in {s} \cup {g \in Procs : pc[g] = "idle"}
  /\ pc' = [pc EXCEPT ![f] = "find_lock"]
  /\ key' = [key EXCEPT ![f] = key[s]]
  /\ cbOf' = [cbOf EXCEPT ![f] = s]
  /\ UNCHANGED <<heap, cb, mutex, ctx, res, frame, cstr, eng, ret,
                 registered, released, ndel>>
  /\ UNCHANGED auxvars

\* The engine call returns (every callback of this scan has returned) with a
\* status, a virus name and a byte count; the scan function computes its return
\* values and its deferred calls start: ScanFile and ScanDesc free the C string
\* and return, ScanMapCb frees cfilename and then runs deleteContext(cctx),
\* ScanFileCb runs deleteContext(cctx) and frees cpath after it.
engine_return(t, status, name, scanned) ==
  /\ pc[t] = "engine"
  /\ \A f \in Procs : cbOf[f] # t
  /\ eng' = [eng EXCEPT ![t] = [status |-> status, name |-> name, scanned |-> scanned]]
  /\ ret' = [ret EXCEPT ![t] = ScanReturn(status, name, scanned)]
  /\ pc' = [pc EXCEPT ![t] = IF frame[t] \in CbScans THEN "del_lock" ELSE "scan_done"]
  /\ cstr' = [cstr EXCEPT ![t] = IF frame[t] = "ScanFileCb" THEN cstr[t] ELSE FALSE]
  /\ UNCHANGED <<heap, cb, mutex, ctx, key, res, frame, cbOf, registered, released, ndel>>
  /\ UNCHANGED auxvars

\* the scan function has returned to its caller
scan_return(t) ==
  /\ pc[t] = "scan_done"
  /\ pc' = [pc EXCEPT ![t] = "idle"]
  /\ frame' = [frame EXCEPT ![t] = "none"]
  /\ ctx' = [ctx EXCEPT ![t] = NoCtx]
  /\ key' = [key EXCEPT ![t] = NULL]
  /\ res' = [res EXCEPT ![t] = NoRes]
  /\ eng' = [eng EXCEPT ![t] = NoEng]
  /\ ret' = [ret EXCEPT ![t] = NoRet]
  /\ ndel' = [ndel EXCEPT ![t] = 0]
  /\ UNCHANGED <<heap, cb, mutex, cbOf, cstr, registered, released>>
  /\ UNCHANGED auxvars

NextScan ==
  \/ \E t \in Procs : ScanFile_call(t)
  \/ \E t \in Procs : ScanDesc_call(t)
  \/ \E t \in Procs, c \in Ctx : ScanFileCb_call(t, c)
  \/ \E t \in Procs, c \in Ctx : ScanMapCb_call(t, c)
  \/ \E t \in Procs : setContext_malloc(t)
  \/ \E t \in Procs : setContext_Lock(t)
  \/ \E t \in Procs : setContext_store(t)
  \/ \E t \in Procs : setContext_return(t)
  \/ \E f \in Procs, s \in Procs : engine_callback(f, s)
  \/ \E t \in Procs : findContext_Lock(t)
  \/ \E t \in Procs : findContext_lookup(t)
  \/ \E t \in Procs : findContext_return(t)
  \/ \E t \in Procs, st \in Status, n \in VirNames, sc \in 0..MaxScanned :
       engine_return(t, st, n, sc)
  \/ \E t \in Procs : deleteContext_Lock(t)
  \/ \E t \in Procs : deleteContext_delete(t)
  \/ \E t \in Procs : deleteContext_free(t)
  \/ \E t \in Procs : deleteContext_return(t)
  \/ \E t \in Procs : scan_return(t)

ScanSpec == Init /\ [][NextScan]_vars

(* ------------------------- concurrent triples -------------------------- *)
\* a goroutine takes the next context of the workload and starts its triple
\* with setContext(c)
Triple_start(t, c) ==
  /\ pc[t] = "idle"
  /\ c \in todo
  /\ todo' = todo \ {c}
  /\ pc' = [pc EXCEPT ![t] = "set_malloc"]
  /\ frame' = [frame EXCEPT ![t] = Triple]
  /\ ctx' = [ctx EXCEPT ![t] = c]
  /\ UNCHANGED <<heap, cb, mutex, key, res, cbOf, cstr, eng, ret,
                 registered, released, ndel>>
  /\ UNCHANGED <<statvars, initvars>>

\* the triple is over: deleteContext has returned
Triple_return(t) ==
  /\ pc[t] = "triple_done"
  /\ pc' = [pc EXCEPT ![t] = "idle"]
  /\ frame' = [frame EXCEPT ![t] = "none"]
  /\ ctx' = [ctx EXCEPT ![t] = NoCtx]
  /\ key' = [key EXCEPT ![t] = NULL]
  /\ UNCHANGED <<heap, cb, mutex, res, cbOf, cstr, eng, ret,
                 registered, released, ndel>>
  /\ UNCHANGED auxvars

NextTriple ==
  \/ \E t \in Procs, c \in Ctx : Triple_start(t, c)
  \/ \E t \in Procs : setContext_malloc(t)
  \/ \E t \in Procs : setContext_Lock(t)
  \/ \E t \in Procs : setContext_store(t)
  \/ \E t \in Procs : setContext_return(t)
  \/ \E t \in Procs : findContext_Lock(t)
  \/ \E t \in Procs : findContext_lookup(t)
  \/ \E t \in Procs : findContext_return(t)
  \/ \E t \in Procs : deleteContext_Lock(t)
  \/ \E t \in Procs : deleteContext_delete(t)
  \/ \E t \in Procs : deleteContext_free(t)
  \/ \E t \in Procs : deleteContext_return(t)
  \/ \E t \in Procs : Triple_return(t)

\* the steps of goroutine t in the workload
TripleStep(t) ==
  \/ \E c \in Ctx : Triple_start(t, c)
  \/ setContext_malloc(t)
  \/ setContext_Lock(t)
  \/ setContext_store(t)
  \/ setContext_return(t)
  \/ findContext_Lock(t)
  \/ findContext_lookup(t)
  \/ findContext_return(t)
  \/ deleteContext_Lock(t)
  \/ deleteContext_delete(t)
  \/ deleteContext_free(t)
  \/ deleteContext_return(t)
  \/ Triple_return(t)

\* the scheduler runs every goroutine that can take a step
TripleSpec == Init /\ [][NextTriple]_vars /\ \A t \in Procs : WF_vars(TripleStep(t))

\* every goroutine has left the workload: nothing is left to start and it is
\* idle, or a failed allocation made it panic
Terminated ==
  \A t \in Procs : pc[t] = "panicked" \/ (pc[t] = "idle" /\ todo = {})

\* C13: under fair scheduling the triples on distinct contexts all come to
\* an end, the registry is then empty and the lock free, and no goroutine
\* ever resolves its key to a context other than the one it registered.
C13_TriplesTerminate ==
  /\ <>Terminated
  /\ [](Terminated => (cb = EmptyMap /\ mutex = NoProc))
  /\ [](\A t \in Procs :
          (frame[t] = Triple /\ pc[t] = "find_unlock") => res[t] = Ok(ctx[t]))

\* the whole workload has been run and more than one key has been released
W13_AllTriplesDone ==
  /\ \A t \in Procs : pc[t] = "idle"
  /\ todo = {}
  /\ Cardinality(released) > 1
  /\ cb = EmptyMap

(* ------------------------- scans under a fair scheduler ---------------- *)
\* the steps goroutine t takes while it holds callbacks.Mutex
InLockStep(t) ==
  \/ setContext_store(t)
  \/ setContext_return(t)
  \/ findContext_lookup(t)
  \/ findContext_return(t)
  \/ deleteContext_delete(t)
  \/ deleteContext_free(t)
  \/ deleteContext_return(t)

\* callbacks.Lock() in any of the three registry functions
LockStep(t) ==
  \/ setContext_Lock(t)
  \/ findContext_Lock(t)
  \/ deleteContext_Lock(t)

\* A goroutine that holds the mutex runs on; sync.Mutex hands the lock to a
\* goroutine that keeps waiting for it (starvation mode).  Nothing is assumed
\* of the engine: a scan call may never return.
ScanFairSpec ==
  /\ Init /\ [][NextScan]_vars
  /\ \A t \in Procs : WF_vars(InLockStep(t)) /\ SF_vars(LockStep(t))

\* a goroutine at one of these positions waits for callbacks.Mutex
LockWait == {"set_lock", "find_lock", "del_lock"}

\* C14: no goroutine holds the registry lock while its scan is in the engine
\* call; a callback's findContext that waits for the lock acquires it and
\* returns; a setContext or deleteContext that waits for the lock acquires it,
\* whatever scans are in progress.
C14_LockNotHeldAcrossScan ==
  /\ [](\A t \in Procs : pc[t] = "engine" => mutex # t)
  /\ \A t \in Procs :
       (pc[t] \in LockWait) ~> (pc[t] \notin LockWait \cup {"find_lookup", "find_unlock"})

\* a callback on the scanning thread waits for the lock while another scan's
\* registry function holds it
W14_CallbackWaitsDuringOtherScan ==
  \E s, u \in Procs :
    /\ u # s
    /\ cbOf[s] = s
    /\ pc[s] = "find_lock"
    /\ mutex = u
    /\ frame[u] \in CbScans

(* ------------------------- the Stat functions -------------------------- *)
\* the database directory changes on disk
DbChange ==
  /\ dbver < MaxDbVer
  /\ dbver' = dbver + 1
  /\ UNCHANGED <<stats, spc, sarg, slocal, sret, swas, regvars, initvars, todo>>

\* StatIniDir(dir, stat) on a structure that holds no snapshot
StatIniDir(s) ==
  /\ spc = "idle"
  /\ stats[s].st # "init"
  /\ \E r \in StatIniDirResults(dbver) : stats' = [stats EXCEPT ![s] = r.stat]
  /\ UNCHANGED <<dbver, spc, sarg, slocal, sret, swas, regvars, initvars, todo>>

\* StatFree(stat)
StatFree(s) ==
  /\ spc = "idle"
  /\ stats[s].st = "init"
  /\ stats' = [stats EXCEPT ![s] = StatFreeResult(stats[s])]
  /\ UNCHANGED <<dbver, spc, sarg, slocal, sret, swas, regvars, initvars, todo>>

\* the caller calls StatChkReload(stat)
StatChkReload_call(s) ==
  /\ spc = "idle"
  /\ spc' = "reload_chk"
  /\ sarg' = s
  /\ swas' = (stats[s].st = "init")
  /\ UNCHANGED <<dbver, stats, slocal, sret, regvars, initvars, todo>>

\* if StatChkDir(stat) { ... }; return false, nil
StatChkReload_chk ==
  /\ spc = "reload_chk"
  /\ \E changed \in StatChkDirResults(stats[sarg], dbver) :
       IF changed
       THEN spc' = "reload_free" /\ UNCHANGED sret
       ELSE spc' = "reload_done" /\ sret' = [changed |-> FALSE, err |-> Nil]
  /\ UNCHANGED <<dbver, stats, sarg, slocal, swas, regvars, initvars, todo>>

\* StatFree(stat); stat = new(Stat): the caller's structure is released and the
\* local variable stat now points to a new zero structure
StatChkReload_free ==
  /\ spc = "reload_free"
  /\ stats' = [stats EXCEPT ![sarg] = StatFreeResult(stats[sarg])]
  /\ slocal' = ZeroStat
  /\ spc' = "reload_ini"
  /\ UNCHANGED <<dbver, sarg, sret, swas, regvars, initvars, todo>>

\* return true, StatIniDir(DBDir(), stat): stat is the new structure
StatChkReload_ini ==
  /\ spc = "reload_ini"
  /\ \E r \in StatIniDirResults(dbver) :
       /\ slocal' = r.stat
       /\ sret' = [changed |-> TRUE, err |-> r.err]
  /\ spc' = "reload_done"
  /\ UNCHANGED <<dbver, stats, sarg, swas, regvars, initvars, todo>>

\* StatChkReload has returned; its new structure is unreachable
StatChkReload_return ==
  /\ spc = "reload_done"
  /\ spc' = "idle"
  /\ sarg' = NoStatArg
  /\ slocal' = NoStat
  /\ sret' = NoStatRet
  /\ swas' = FALSE
  /\ UNCHANGED <<dbver, stats, regvars, initvars, todo>>

NextStat ==
  \/ DbChange
  \/ \E s \in Stats : StatIniDir(s)
  \/ \E s \in Stats : StatFree(s)
  \/ \E s \in Stats : StatChkReload_call(s)
  \/ StatChkReload_chk
  \/ StatChkReload_free
  \/ StatChkReload_ini
  \/ StatChkReload_return

StatSpec == Init /\ [][NextStat]_vars

\* C11 (as stated): when StatChkReload, called on an initialised structure,
\* has detected a change and returns (true, nil), the structure the caller
\* passed in is initialised, not freed.
C11_ReloadLeavesCallerStatInitialised ==
  (spc = "reload_done" /\ swas /\ sret.changed /\ sret.err = Nil)
    => stats[sarg].st = "init"

(* ------------------------- Init --------------------------------------- *)
\* a goroutine calls Init(flags): var onceerr error
Init_call(t) ==
  /\ ipc[t] = "idle"
  /\ ipc' = [ipc EXCEPT ![t] = "once_do"]
  /\ onceerr' = [onceerr EXCEPT ![t] = Nil]
  /\ UNCHANGED <<onceDone, onceM, ninit, initst, ncrypto, ran, regvars, statvars, todo>>

\* initOnce.Do(f): if o.done.Load() == 0 { o.doSlow(f) }
Once_Do(t) ==
  /\ ipc[t] = "once_do"
  /\ ipc' = [ipc EXCEPT ![t] = IF OnceNotDone(onceDone) THEN "once_lock" ELSE "init_ret"]
  /\ UNCHANGED <<onceDone, onceM, onceerr, ninit, initst, ncrypto, ran, regvars, statvars, todo>>

\* doSlow: o.m.Lock()
Once_Lock(t) ==
  /\ ipc[t] = "once_lock"
  /\ CanLock(onceM)
  /\ onceM' = t
  /\ ipc' = [ipc EXCEPT ![t] = "once_slow"]
  /\ UNCHANGED <<onceDone, onceerr, ninit, initst, ncrypto, ran, regvars, statvars, todo>>

\* doSlow: if o.done.Load() == 0 { defer o.done.Store(1); f() }
Once_doSlow(t) ==
  /\ ipc[t] = "once_slow"
  /\ ipc' = [ipc EXCEPT ![t] = IF OnceNotDone(onceDone) THEN "cl_init" ELSE "once_unlock"]
  /\ UNCHANGED <<onceDone, onceM, onceerr, ninit, initst, ncrypto, ran, regvars, statvars, todo>>

\* err := ErrorCode(C.cl_init(C.uint(flags)))
\* if err != Success { onceerr = fmt.Errorf("Init: %v", StrError(err)); return }
Init_cl_init(t, err) ==
  /\ ipc[t] = "cl_init"
  /\ ninit < MaxInit
  /\ ninit' = ninit + 1
  /\ initst' = err
  /\ ran' = [ran EXCEPT ![t] = TRUE]
  /\ onceerr' = [onceerr EXCEPT ![t] = IF err # Success THEN InitError(err) ELSE onceerr[t]]
  /\ ipc' = [ipc EXCEPT ![t] = IF err # Success THEN "once_store" ELSE "init_crypto"]
  /\ UNCHANGED <<onceDone, onceM, ncrypto, regvars, statvars, todo>>

\* InitCrypto()
Init_InitCrypto(t) ==
  /\ ipc[t] = "init_crypto"
  /\ ncrypto' = ncrypto + 1
  /\ ipc' = [ipc EXCEPT ![t] = "once_store"]
  /\ UNCHANGED <<onceDone, onceM, onceerr, ninit, initst, ran, regvars, statvars, todo>>

\* f has returned: the deferred o.done.Store(1)
Once_Store(t) ==
  /\ ipc[t] = "once_store"
  /\ onceDone' = TRUE
  /\ ipc' = [ipc EXCEPT ![t] = "once_unlock"]
  /\ UNCHANGED <<onceM, onceerr, ninit, initst, ncrypto, ran, regvars, statvars, todo>>

\* the deferred o.m.Unlock(); Do returns
Once_Unlock(t) ==
  /\ ipc[t] = "once_unlock"
  /\ onceM' = Unlock(onceM)
  /\ ipc' = [ipc EXCEPT ![t] = "init_ret"]
  /\ UNCHANGED <<onceDone, onceerr, ninit, initst, ncrypto, ran, regvars, statvars, todo>>

\* return onceerr
Init_return(t) ==
  /\ ipc[t] = "init_ret"
  /\ ipc' = [ipc EXCEPT ![t] = "idle"]
  /\ onceerr' = [onceerr EXCEPT ![t] = Nil]
  /\ ran' = [ran EXCEPT ![t] = FALSE]
  /\ UNCHANGED <<onceDone, onceM, ninit, initst, ncrypto, regvars, statvars, todo>>

NextInit ==
  \/ \E t \in Procs : Init_call(t)
  \/ \E t \in Procs : Once_Do(t)
  \/ \E t \in Procs : Once_Lock(t)
  \/ \E t \in Procs : Once_doSlow(t)
  \/ \E t \in Procs, err \in Status : Init_cl_init(t, err)
  \/ \E t \in Procs : Init_InitCrypto(t)
  \/ \E t \in Procs : Once_Store(t)
  \/ \E t \in Procs : Once_Unlock(t)
  \/ \E t \in Procs : Init_return(t)

InitSpec == Init /\ [][NextInit]_vars

\* C17: across all Init calls cl_init is called at most once; Init calls
\* InitCrypto only after cl_init returned Success; an Init call that returns
\* an error is the one that called cl_init, and every call that did not call
\* cl_init returns nil, also when the initialisation has failed.
C17_InitOnce ==
  /\ ninit <= 1
  /\ \A t \in Procs : ipc[t] = "init_crypto" => initst = Success
  /\ ncrypto > 0 => initst = Success
  /\ ncrypto <= ninit
  /\ \A t \in Procs : (ipc[t] = "init_ret" /\ onceerr[t] # Nil) => ran[t]
  /\ \A t \in Procs : (ipc[t] = "init_ret" /\ ~ran[t]) => onceerr[t] = Nil

\* an Init call that found the initialisation already made, and failed,
\* returns nil
W17_LaterCallAfterFailure ==
  \E t \in Procs :
    /\ ipc[t] = "init_ret"
    /\ ~ran[t]
    /\ onceerr[t] = Nil
    /\ ninit = 1
    /\ initst # Success

(* ======================= properties of the registry =================== *)

\* C1: a key returned by setContext(v) resolves to exactly v until a
\* deleteContext of it completes (hence at every moment before one is called),
\* whatever the other threads do: the findContext that looks it up returns v,
\* never another context and never a panic.
C1_ResolveReturnsRegistered ==
  \A t \in Procs :
    (pc[t] = "find_unlock" /\ key[t] \in DOMAIN registered)
      => res[t] = Ok(registered[key[t]])

\* a findContext has just resolved a registered key to its own context while
\* the table also holds another key with a different context
W1_ResolvedAmongOthers ==
  \E t \in Procs :
    /\ pc[t] = "find_unlock"
    /\ key[t] \in DOMAIN registered
    /\ res[t] = Ok(registered[key[t]])
    /\ \E k \in DOMAIN cb : k # key[t] /\ cb[k] # res[t].v
    /\ \E u \in Procs \ {t} : pc[u] \notin {"idle", "panicked"}

\* C2 (as stated): once a deleteContext(k) has completed, every later
\* findContext(k) and deleteContext(k) panics.
C2_ReleasedKeyIsFatal ==
  \A t \in Procs :
    (pc[t] \in {"find_unlock", "del_unlock"} /\ key[t] \in released)
      => res[t] = Panic

\* C3: the key a setContext call is about to return differs from every key
\* that is live at that time, and concurrent setContext calls hold different keys.
C3_FreshAmongLiveKeys ==
  /\ \A t \in Procs : pc[t] = "set_unlock" => key[t] \notin DOMAIN registered
  /\ \A t, u \in Procs :
       (t # u /\ pc[t] \in {"set_lock", "set_store", "set_unlock"}
              /\ pc[u] \in {"set_lock", "set_store", "set_unlock"})
         => key[t] # key[u]

\* a setContext is about to return its key while a concurrent setContext call
\* holds its own fresh key, after an earlier key has been released
W3_ConcurrentRegistration ==
  \E t, u \in Procs :
    /\ t # u
    /\ pc[t] = "set_unlock"
    /\ pc[u] = "set_lock"
    /\ released # {}

\* C4: whenever no thread is inside a critical section, the table is exactly
\* the registrations completed so far minus the unregistrations completed so
\* far (taken in the order they completed), each key with the value it was
\* registered with.
C4_TableIsRegisteredMinusUnregistered ==
  mutex = NoProc => cb = registered

\* registrations and unregistrations have both completed, an entry remains,
\* and both threads are in the middle of further calls
W4_AfterInterleaving ==
  /\ mutex = NoProc
  /\ registered # EmptyMap
  /\ released # {}
  /\ \A t \in Procs : pc[t] \in {"set_lock", "find_lock", "del_lock"}

\* C7 (as stated): a key that has once been unregistered is never handed out
\* by a later setContext.
C7_NoKeyRegisteredAgain ==
  \A t \in Procs : pc[t] = "set_unlock" => key[t] \notin released

\* C8: deleteContext(k) removes exactly the entry of k: right after the
\* removal the table is the table of before without k, every other key with
\* its value (so it still resolves), and empty when k was the last key.
C8_DeleteRemovesOnlyItsKey ==
  \A t \in Procs :
    (pc[t] = "del_free" \/ (pc[t] = "del_unlock" /\ res[t] # Panic))
      => /\ DOMAIN cb = DOMAIN registered \ {key[t]}
         /\ \A k \in DOMAIN cb : cb[k] = registered[k]

\* a deleteContext has removed its key and another key, registered with the
\* same context value, is still in the table
W8_OtherKeySameValueKept ==
  \E t \in Procs :
    /\ pc[t] = "del_unlock"
    /\ res[t] # Panic
    /\ \E k \in DOMAIN cb : k # key[t] /\ cb[k] = registered[key[t]]

\* C9: findContext and deleteContext panic exactly when the key is not
\* registered, setContext goes on only with a non-nil identity; a panic leaves
\* the table as it was and the thread that panicked does not hold the lock.
C9_PanicLeavesRegistryIntact ==
  \A t \in Procs :
    /\ pc[t] \in {"find_unlock", "del_unlock"}
         => /\ (res[t] = Panic) <=> key[t] \notin DOMAIN registered
            /\ res[t] = Panic => cb = registered
    /\ pc[t] \in {"set_lock", "set_store", "set_unlock"}
         => key[t] \in heap /\ key[t] # NULL
    /\ pc[t] = "panicked"
         => /\ mutex # t
            /\ res[t] = Panic
            /\ mutex = NoProc => cb = registered

\* one thread has panicked on an unregistered key and another thread has since
\* taken the lock and resolved a registered key
W9_OthersGoOnAfterPanic ==
  \E t, u \in Procs :
    /\ pc[t] = "panicked"
    /\ key[t] # NULL
    /\ pc[u] = "find_unlock"
    /\ mutex = u
    /\ res[u] # Panic

\* the positions at which a goroutine is between callbacks.Lock() and the
\* deferred callbacks.Unlock(); the table is read or written only there
InLock == {"set_store", "set_unlock", "find_lookup", "find_unlock",
           "del_delete", "del_free", "del_unlock"}

\* C12: every access to the table happens under the registry mutex: a thread
\* between Lock and Unlock of setContext, findContext or deleteContext is the
\* holder of the mutex, so no two threads are there at the same time.
C12_TableAccessUnderMutex ==
  /\ \A t \in Procs : pc[t] \in InLock => mutex = t
  /\ \A t, u \in Procs : (pc[t] \in InLock /\ pc[u] \in InLock) => t = u

\* a thread is looking a key up under the lock while another thread waits in Lock
W12_OneInsideOneWaiting ==
  \E t, u \in Procs :
    /\ pc[t] = "find_lookup"
    /\ mutex = t
    /\ pc[u] \in {"set_lock", "del_lock"}
    /\ cb # EmptyMap

\* no registry call is in progress
Quiescent == \A t \in Procs : pc[t] \in {"idle", "panicked"}

\* the tokens setContext has allocated and not yet stored in the table
TokensInHand == {key[t] : t \in {u \in Procs : pc[u] \in {"set_lock", "set_store"}}}

\* C15: identity tokens are accounted for: an entry's token is allocated as
\* long as the entry is in the table, deleteContext frees a token that is
\* allocated and whose entry it has just removed (never twice; once freed the
\* address is allocated again only to a setContext that has not stored it yet),
\* and with no call in progress the allocated tokens are exactly the keys of the table.
C15_TokenAccounting ==
  /\ DOMAIN cb \subseteq heap
  /\ \A t \in Procs :
       pc[t] = "del_free" => key[t] \in heap /\ key[t] \notin DOMAIN cb
  /\ \A t \in Procs :
       (pc[t] = "del_unlock" /\ res[t] # Panic)
         => key[t] \notin DOMAIN cb /\ (key[t] \in heap => key[t] \in TokensInHand)
  /\ heap \ DOMAIN cb \subseteq
       TokensInHand \cup {key[t] : t \in {u \in Procs : pc[u] = "del_free"}}
  /\ Quiescent => heap = DOMAIN cb

\* no call is in progress, a token has been released and another is still
\* allocated for an entry of the table
W15_QuiescentAfterRelease ==
  /\ Quiescent
  /\ released # {}
  /\ heap # {}
  /\ heap = DOMAIN cb

\* C16: when setContext stores its entry the table has no entry under that
\* key, also when the allocator has handed out a released address again.
C16_StoreNeverOverwrites ==
  \A t \in Procs : pc[t] = "set_store" => key[t] \notin DOMAIN cb

\* setContext is about to store under an address an earlier deleteContext
\* released, while another entry is in the table and another thread is in a call
W16_StoreUnderReusedAddress ==
  \E t \in Procs :
    /\ pc[t] = "set_store"
    /\ key[t] \in released
    /\ cb # EmptyMap
    /\ \E u \in Procs \ {t} : pc[u] \in {"set_lock", "del_lock"}

(* ======================= properties of the scans ====================== *)

\* C5: while a ScanFileCb or ScanMapCb call is inside the engine its key is in
\* the table with its context, and every callback of that scan that has looked
\* the key up has found that context.
C5_KeyRegisteredDuringScan ==
  /\ \A s \in Procs : InEngine(s) => key[s] \in DOMAIN cb /\ cb[key[s]] = ctx[s]
  /\ \A f \in Procs :
       (cbOf[f] # NoProc /\ pc[f] = "find_unlock") => res[f] = Ok(ctx[cbOf[f]])

\* a callback running on a foreign thread has found the context of a scan whose
\* key is an address an earlier scan had released
W5_ForeignCallbackFound ==
  \E f \in Procs :
    /\ cbOf[f] \notin {NoProc, f}
    /\ pc[f] = "find_unlock"
    /\ res[f] = Ok(ctx[cbOf[f]])
    /\ key[f] \in released

\* a ScanFileCb or ScanMapCb call is running: called and not yet returned
InFlight(t) == frame[t] \in CbScans /\ pc[t] \notin {"scan_done", "panicked"}

\* C6: a ScanFileCb or ScanMapCb call that returns has run deleteContext to
\* completion exactly once, whatever the engine reported, and when no such call
\* is in flight the table is empty.
C6_ScanRemovesItsEntryOnce ==
  /\ \A t \in Procs :
       (pc[t] = "scan_done" /\ frame[t] \in CbScans)
         => ndel[t] = 1 /\ eng[t].status \in Status
  /\ (\A t \in Procs : ~InFlight(t)) => cb = EmptyMap

\* two callback scans have returned, one reporting a virus and one a scan error
W6_ReturnedOnVirusAndError ==
  \E t, u \in Procs :
    /\ pc[t] = "scan_done" /\ frame[t] = "ScanFileCb" /\ eng[t].status = Virus
    /\ pc[u] = "scan_done" /\ frame[u] = "ScanMapCb" /\ eng[u].status = OtherStatus
    /\ cb = EmptyMap

\* C10 (as stated): every scan function returns the classification of the
\* engine's status and, in all three cases, the byte count the engine reported.
C10_ScanReportsEngineCount ==
  \A t \in Procs :
    pc[t] = "scan_done"
      => /\ eng[t].status = Success => ret[t].name = "" /\ ret[t].err = Nil
         /\ eng[t].status = Virus => ret[t].name = eng[t].name /\ ret[t].err # Nil
         /\ eng[t].status = OtherStatus => ret[t].name = "" /\ ret[t].err # Nil
         /\ ret[t].scanned = eng[t].scanned

TypeOK ==
  /\ heap \subseteq Addr
  /\ DOMAIN cb \subseteq Addr
  /\ \A k \in DOMAIN cb : cb[k] \in Ctx
  /\ mutex \in Procs \cup {NoProc}
  /\ \A t \in Procs : key[t] \in Addr \cup {NULL}
  /\ \A t \in Procs : ctx[t] \in Ctx \cup {NoCtx}

=============================================================================
